---- MODULE Spec2Model ----
(***************************************************************************)
(* Model of gst-soup-server-example: an HTTP broadcast server built on a   *)
(* GStreamer pipeline ending in a multisocketsink.                        *)
(*                                                                         *)
(* Threads.  The GLib main loop thread ("main") runs the libsoup request   *)
(* callbacks (add_client), the bus watch (bus_watch) and the Unix signal   *)
(* sources (exit_sighandler).  The sink's own thread ("streaming") runs    *)
(* on_client_socket_removed when the sink drops a socket.  The sink's      *)
(* "clear" signal runs on_client_socket_removed synchronously in the       *)
(* emitting thread, i.e. in "main", once per socket held by the sink.      *)
(***************************************************************************)
EXTENDS FiniteSets, Integers, Sequences, TLC

(* ---- bounds ---- *)
NumSockets == 3
NumStreams == 3
MaxEnvMsgs == 1
MaxSpurious == 1

Sockets == 1..NumSockets
Streams == 1..NumStreams
NoStream == 0
NoSocket == 0
Threads == {"main", "streaming"}
RequestStates == {"PAUSED", "PLAYING"}

VARIABLES
    m_clients,        \* std::map<GSocket*, GIOStream*>: socket -> stream, NoStream = no entry
    m_client_mutex,   \* "free" or the thread holding the std::mutex
    sinkTargets,      \* sockets the multisocketsink currently distributes to
    bus,              \* the pipeline's GstBus: messages posted, not yet dispatched
    pipelineState,    \* target state of m_pipeline
    closeCount,       \* per GIOStream: number of g_io_stream_close calls made on it
    nextStream,       \* next GIOStream a request will bring
    usedSockets,      \* GSocket handles that some request has already brought
    mainPc,           \* position of the main loop thread
    ac,               \* frame of the add_client call in progress
    cb,               \* per thread: frame of its on_client_socket_removed call
    bw,               \* frame of the bus_watch call handling EOS/ERROR
    hist              \* history (call counters, calling threads)

vars == <<m_clients, m_client_mutex, sinkTargets, bus, pipelineState, closeCount,
          nextStream, usedSockets, mainPc, ac, cb, bw, hist>>

(* ---- helpers ---- *)
Keys(m) == {s \in Sockets : m[s] # NoStream}
Size(m) == Cardinality(Keys(m))
Registered(m) == {m[s] : s \in Keys(m)}

Msg(t, a) == [type |-> t, arg |-> a]
StopPipelineMsg == Msg("ELEMENT", "StopPipeline")
EnvMsgs ==
    {Msg("EOS", ""), Msg("ERROR", ""), Msg("INFO", ""), Msg("WARNING", ""),
     Msg("ELEMENT", "other"), Msg("STATE_CHANGED", ""), Msg("LATENCY", "")}
    \cup {Msg("REQUEST_STATE", s) : s \in RequestStates}

NoAc == [sock |-> NoSocket, stream |-> NoStream, old |-> NoStream, wasFirst |-> FALSE]
NoCb == [pc |-> "none", sock |-> NoSocket, wasLast |-> FALSE]
NoBw == [type |-> "", snapshot |-> {}]

Running == mainPc # "quit"

\* The main loop has ended and ~http_stream_pipeline is in
\* gst_element_set_state(NULL), which returns only once the streaming
\* thread has left its callback.
Joining == mainPc = "quit" /\ pipelineState = "NULL"

Init ==
    /\ m_clients = [s \in Sockets |-> NoStream]
    /\ m_client_mutex = "free"
    /\ sinkTargets = {}
    /\ bus = <<>>
    /\ pipelineState = "READY"
    /\ closeCount = [st \in Streams |-> 0]
    /\ nextStream = 1
    /\ usedSockets = {}
    /\ mainPc = "idle"
    /\ ac = NoAc
    /\ cb = [t \in Threads |-> NoCb]
    /\ bw = NoBw
    /\ hist = [playTrue |-> 0, playFalse |-> 0, stopPosted |-> 0, stopHandled |-> 0,
               envPosted |-> 0, spurious |-> 0, ignored |-> 0, fatalHandled |-> 0,
               firstRegs |-> 0, dupRegs |-> 0, setStateThreads |-> {}]

(* ---- the pipeline ---- *)

\* gst_element_set_state: the new state of the pipeline; a rejected
\* transition (GST_STATE_CHANGE_FAILURE) leaves the state as it was.
gst_element_set_state(target, ok) == IF ok THEN target ELSE pipelineState

\* http_stream_pipeline::play: the pipeline state it leaves behind.
\* ok = FALSE is the rejected transition, on which play throws.
play(p_do_play, ok) ==
    gst_element_set_state(IF p_do_play THEN "PLAYING" ELSE "READY", ok)

\* The record of a play call made by thread t, added to history h.
PlayCalled(h, p_do_play, t) ==
    [h EXCEPT !.playTrue = IF p_do_play THEN @ + 1 ELSE @,
              !.playFalse = IF p_do_play THEN @ ELSE @ + 1,
              !.setStateThreads = @ \cup {t}]

\* The std::runtime_error thrown by play leaves the callback and the main
\* loop: either main's catch block ends the process (the pipeline's
\* destructor sets the state to NULL) or unwinding through the C frames
\* fails and the process is terminated where it stands.
Thrown(state) ==
    /\ mainPc' = "quit"
    /\ pipelineState' \in {state, "NULL"}

(* ---- add_client (main thread) ---- *)

\* A request's headers were written: wrote_headers_cb calls add_client.
AddClientCall(p_stream, p_socket) ==
    /\ mainPc = "idle"
    /\ p_stream = nextStream
    /\ p_stream \in Streams
    /\ mainPc' = "ac_lock"
    /\ ac' = [NoAc EXCEPT !.sock = p_socket, !.stream = p_stream]
    /\ nextStream' = nextStream + 1
    /\ usedSockets' = usedSockets \cup {p_socket}
    /\ UNCHANGED <<m_clients, m_client_mutex, sinkTargets, bus, pipelineState,
                   closeCount, cb, bw, hist>>

\* std::lock_guard lock(m_client_mutex)
AddClientLock ==
    /\ mainPc = "ac_lock"
    /\ m_client_mutex = "free"
    /\ m_client_mutex' = "main"
    /\ mainPc' = "ac_insert"
    /\ UNCHANGED <<m_clients, sinkTargets, bus, pipelineState, closeCount,
                   nextStream, usedSockets, ac, cb, bw, hist>>

\* Variant of AddClientInsert: the socket goes to the sink without an entry
\* having been stored for it.
AddClientInsertMissing ==
    /\ mainPc = "ac_insert"
    /\ ac' = [ac EXCEPT !.old = m_clients[ac.sock],
                        !.wasFirst = (Size(m_clients) = 0)]
    /\ mainPc' = "ac_sink_add"
    /\ UNCHANGED <<m_clients, m_client_mutex, sinkTargets, bus, pipelineState,
                   closeCount, nextStream, usedSockets, cb, bw, hist>>

\* m_clients[p_socket] = p_stream
AddClientInsert ==
    /\ mainPc = "ac_insert"
    /\ m_clients' = [m_clients EXCEPT ![ac.sock] = ac.stream]
    /\ ac' = [ac EXCEPT !.old = m_clients[ac.sock],
                        !.wasFirst = (Size(m_clients) = 0)]
    /\ hist' = [hist EXCEPT !.firstRegs = IF Size(m_clients) = 0 THEN @ + 1 ELSE @,
                            !.dupRegs = IF m_clients[ac.sock] # NoStream THEN @ + 1 ELSE @]
    /\ mainPc' = "ac_sink_add"
    /\ UNCHANGED <<m_client_mutex, sinkTargets, bus, pipelineState, closeCount,
                   nextStream, usedSockets, cb, bw>>

\* Variant of AddClientSinkAdd: the socket is not handed to the sink.
AddClientSinkAddMissing ==
    /\ mainPc = "ac_sink_add"
    /\ mainPc' = "ac_play"
    /\ UNCHANGED <<m_clients, m_client_mutex, sinkTargets, bus, pipelineState,
                   closeCount, nextStream, usedSockets, ac, cb, bw, hist>>

\* g_signal_emit_by_name(m_multisocketsink, "add", p_socket)
AddClientSinkAdd ==
    /\ mainPc = "ac_sink_add"
    /\ sinkTargets' = sinkTargets \cup {ac.sock}
    /\ mainPc' = "ac_play"
    /\ UNCHANGED <<m_clients, m_client_mutex, bus, pipelineState, closeCount,
                   nextStream, usedSockets, ac, cb, bw, hist>>

\* Variant of AddClientPlay: the size check is ">= 1" instead of "== 1".
AddClientPlayAnySize ==
    /\ mainPc = "ac_play"
    /\ m_client_mutex' = "free"
    /\ ac' = NoAc
    /\ IF Size(m_clients) >= 1
       THEN \E ok \in BOOLEAN :
              /\ hist' = PlayCalled(hist, TRUE, "main")
              /\ IF ok THEN /\ pipelineState' = play(TRUE, ok)
                            /\ mainPc' = "idle"
                       ELSE Thrown(play(TRUE, ok))
       ELSE /\ mainPc' = "idle"
            /\ UNCHANGED <<pipelineState, hist>>
    /\ UNCHANGED <<m_clients, sinkTargets, bus, closeCount, nextStream,
                   usedSockets, cb, bw>>

\* if (m_clients.size() == 1) play(true); then the lock_guard releases.
AddClientPlay ==
    /\ mainPc = "ac_play"
    /\ m_client_mutex' = "free"
    /\ ac' = NoAc
    /\ IF Size(m_clients) = 1
       THEN \E ok \in BOOLEAN :
              /\ hist' = PlayCalled(hist, TRUE, "main")
              /\ IF ok THEN /\ pipelineState' = play(TRUE, ok)
                            /\ mainPc' = "idle"
                       ELSE Thrown(play(TRUE, ok))
       ELSE /\ mainPc' = "idle"
            /\ UNCHANGED <<pipelineState, hist>>
    /\ UNCHANGED <<m_clients, sinkTargets, bus, closeCount, nextStream,
                   usedSockets, cb, bw>>

(* ---- on_client_socket_removed (thread t) ---- *)

\* Variant of RemovedLock: the callback does not take the mutex.
RemovedLockNoGuard(t) ==
    /\ cb[t].pc = "lock"
    /\ cb' = [cb EXCEPT ![t].pc = "find"]
    /\ UNCHANGED <<m_clients, m_client_mutex, sinkTargets, bus, pipelineState,
                   closeCount, nextStream, usedSockets, mainPc, ac, bw, hist>>

\* std::lock_guard lock(self->m_client_mutex)
RemovedLock(t) ==
    /\ cb[t].pc = "lock"
    /\ m_client_mutex = "free"
    /\ m_client_mutex' = t
    /\ cb' = [cb EXCEPT ![t].pc = "find"]
    /\ UNCHANGED <<m_clients, sinkTargets, bus, pipelineState, closeCount,
                   nextStream, usedSockets, mainPc, ac, bw, hist>>

\* Variant of RemovedFind: the mutex guards the lookup only and is
\* released before the close and the erase.
RemovedFindUnlocks(t) ==
    /\ cb[t].pc = "find"
    /\ m_client_mutex' = "free"
    /\ IF m_clients[cb[t].sock] = NoStream
       THEN /\ cb' = [cb EXCEPT ![t] = NoCb]
            /\ hist' = [hist EXCEPT !.ignored = @ + 1]
       ELSE /\ cb' = [cb EXCEPT ![t].pc = "close"]
            /\ UNCHANGED hist
    /\ UNCHANGED <<m_clients, sinkTargets, bus, pipelineState, closeCount,
                   nextStream, usedSockets, mainPc, ac, bw>>

\* Variant of RemovedFind: no test against m_clients.end(); an unknown
\* socket goes on to the emptiness check.
RemovedFindNoEndCheck(t) ==
    /\ cb[t].pc = "find"
    /\ cb' = [cb EXCEPT ![t].pc =
                 IF m_clients[cb[t].sock] = NoStream THEN "check" ELSE "close"]
    /\ UNCHANGED <<m_clients, m_client_mutex, sinkTargets, bus, pipelineState,
                   closeCount, nextStream, usedSockets, mainPc, ac, bw, hist>>

\* iter = m_clients.find(p_socket); not found: log, return (releases the lock)
RemovedFind(t) ==
    /\ cb[t].pc = "find"
    /\ IF m_clients[cb[t].sock] = NoStream
       THEN /\ cb' = [cb EXCEPT ![t] = NoCb]
            /\ m_client_mutex' = "free"
            /\ hist' = [hist EXCEPT !.ignored = @ + 1]
       ELSE /\ cb' = [cb EXCEPT ![t].pc = "close"]
            /\ UNCHANGED <<m_client_mutex, hist>>
    /\ UNCHANGED <<m_clients, sinkTargets, bus, pipelineState, closeCount,
                   nextStream, usedSockets, mainPc, ac, bw>>

\* Variant of RemovedClose: the mutex is released once the stream is
\* closed, before the entry is erased.
RemovedCloseUnlocks(t) ==
    /\ cb[t].pc = "close"
    /\ closeCount' = [closeCount EXCEPT ![m_clients[cb[t].sock]] = @ + 1]
    /\ m_client_mutex' = "free"
    /\ cb' = [cb EXCEPT ![t].pc = "erase"]
    /\ UNCHANGED <<m_clients, sinkTargets, bus, pipelineState,
                   nextStream, usedSockets, mainPc, ac, bw, hist>>

\* Variant of RemovedClose: the stream is not closed.
RemovedCloseSkipped(t) ==
    /\ cb[t].pc = "close"
    /\ cb' = [cb EXCEPT ![t].pc = "erase"]
    /\ UNCHANGED <<m_clients, m_client_mutex, sinkTargets, bus, pipelineState,
                   closeCount, nextStream, usedSockets, mainPc, ac, bw, hist>>

\* g_io_stream_close(iter->second, ...)
RemovedClose(t) ==
    /\ cb[t].pc = "close"
    /\ closeCount' = [closeCount EXCEPT ![m_clients[cb[t].sock]] = @ + 1]
    /\ cb' = [cb EXCEPT ![t].pc = "erase"]
    /\ UNCHANGED <<m_clients, m_client_mutex, sinkTargets, bus, pipelineState,
                   nextStream, usedSockets, mainPc, ac, bw, hist>>

\* Variant of RemovedErase: the whole collection is emptied instead of
\* the one entry.
RemovedEraseAll(t) ==
    /\ cb[t].pc = "erase"
    /\ m_clients' = [s \in Sockets |-> NoStream]
    /\ cb' = [cb EXCEPT ![t].pc = "check", ![t].wasLast = (Size(m_clients) = 1)]
    /\ UNCHANGED <<m_client_mutex, sinkTargets, bus, pipelineState, closeCount,
                   nextStream, usedSockets, mainPc, ac, bw, hist>>

\* m_clients.erase(iter)
RemovedErase(t) ==
    /\ cb[t].pc = "erase"
    /\ m_clients' = [m_clients EXCEPT ![cb[t].sock] = NoStream]
    /\ cb' = [cb EXCEPT ![t].pc = "check", ![t].wasLast = (Size(m_clients) = 1)]
    /\ UNCHANGED <<m_client_mutex, sinkTargets, bus, pipelineState, closeCount,
                   nextStream, usedSockets, mainPc, ac, bw, hist>>

\* Variant of RemovedCheck: the stop request is posted without the
\* emptiness test.
RemovedCheckAlwaysPosts(t) ==
    /\ cb[t].pc = "check"
    /\ bus' = Append(bus, StopPipelineMsg)
    /\ hist' = [hist EXCEPT !.stopPosted = @ + 1]
    /\ m_client_mutex' = "free"
    /\ cb' = [cb EXCEPT ![t] = NoCb]
    /\ UNCHANGED <<m_clients, sinkTargets, pipelineState, closeCount,
                   nextStream, usedSockets, mainPc, ac, bw>>

\* Variant of RemovedCheck: play(false) is called in the callback's own
\* thread instead of posting the stop request.
RemovedCheckPlaysDirectly(t) ==
    /\ cb[t].pc = "check"
    /\ IF Size(m_clients) = 0
       THEN /\ pipelineState' = play(FALSE, TRUE)
            /\ hist' = PlayCalled(hist, FALSE, t)
       ELSE UNCHANGED <<pipelineState, hist>>
    /\ m_client_mutex' = "free"
    /\ cb' = [cb EXCEPT ![t] = NoCb]
    /\ UNCHANGED <<m_clients, sinkTargets, bus, closeCount,
                   nextStream, usedSockets, mainPc, ac, bw>>

\* if (m_clients.empty()) post the StopPipeline element message; return.
RemovedCheck(t) ==
    /\ cb[t].pc = "check"
    /\ IF Size(m_clients) = 0
       THEN /\ bus' = Append(bus, StopPipelineMsg)
            /\ hist' = [hist EXCEPT !.stopPosted = @ + 1]
       ELSE UNCHANGED <<bus, hist>>
    /\ m_client_mutex' = "free"
    /\ cb' = [cb EXCEPT ![t] = NoCb]
    /\ UNCHANGED <<m_clients, sinkTargets, pipelineState, closeCount,
                   nextStream, usedSockets, mainPc, ac, bw>>

(* ---- the multisocketsink (streaming thread) ---- *)

\* The sink drops a socket (units-max exceeded, timeout, peer disconnect):
\* the socket leaves the sink's client list, then "client-socket-removed"
\* is emitted in the streaming thread.
SinkRemoveClient(s) ==
    /\ Running
    /\ cb["streaming"].pc = "none"
    /\ s \in sinkTargets
    /\ sinkTargets' = sinkTargets \ {s}
    /\ cb' = [cb EXCEPT !["streaming"] = [NoCb EXCEPT !.pc = "lock", !.sock = s]]
    /\ UNCHANGED <<m_clients, m_client_mutex, bus, pipelineState, closeCount,
                   nextStream, usedSockets, mainPc, ac, bw, hist>>

\* A "client-socket-removed" emission for a socket of the caller's choice,
\* whether or not the sink or the registry holds it.
SpuriousRemoved(s) ==
    /\ Running
    /\ cb["streaming"].pc = "none"
    /\ hist.spurious < MaxSpurious
    /\ cb' = [cb EXCEPT !["streaming"] = [NoCb EXCEPT !.pc = "lock", !.sock = s]]
    /\ hist' = [hist EXCEPT !.spurious = @ + 1]
    /\ UNCHANGED <<m_clients, m_client_mutex, sinkTargets, bus, pipelineState,
                   closeCount, nextStream, usedSockets, mainPc, ac, bw>>

\* The steps of the streaming thread's on_client_socket_removed call; a call
\* in flight when the main loop ends is finished while the destructor waits.
StreamingRemoved ==
    /\ Running \/ Joining
    /\ \/ RemovedLock("streaming")
       \/ RemovedFind("streaming")
       \/ RemovedClose("streaming")
       \/ RemovedErase("streaming")
       \/ RemovedCheck("streaming")

(* ---- bus_watch (main thread) ---- *)

\* The main loop takes the oldest message off the bus for bus_watch.
Dispatch(msg) ==
    /\ mainPc = "idle"
    /\ bus # <<>>
    /\ msg = Head(bus)

\* case GST_MESSAGE_ELEMENT: StopPipeline -> play(false); others ignored.
BusWatchElement ==
    \E msg \in {StopPipelineMsg, Msg("ELEMENT", "other")} :
      /\ Dispatch(msg)
      /\ IF msg.arg = "StopPipeline"
         THEN \E ok \in BOOLEAN :
                /\ hist' = [PlayCalled(hist, FALSE, "main") EXCEPT !.stopHandled = @ + 1]
                /\ bus' = Tail(bus)
                /\ IF ok THEN /\ pipelineState' = play(FALSE, ok)
                              /\ mainPc' = "idle"
                         ELSE Thrown(play(FALSE, ok))
         ELSE /\ bus' = Tail(bus)
              /\ UNCHANGED <<pipelineState, mainPc, hist>>
      /\ UNCHANGED <<m_clients, m_client_mutex, sinkTargets, closeCount,
                     nextStream, usedSockets, ac, cb, bw>>

\* The common part of the EOS case and of the ERROR branch: play(false),
\* then emit "clear" on the sink.
StopAndClear(type) ==
    /\ Dispatch(Msg(type, ""))
    /\ bus' = Tail(bus)
    /\ hist' = PlayCalled(hist, FALSE, "main")
    /\ \E ok \in BOOLEAN :
         IF ok THEN /\ pipelineState' = play(FALSE, ok)
                    /\ mainPc' = "bw_clear"
                    /\ bw' = [type |-> type, snapshot |-> Registered(m_clients)]
               ELSE /\ Thrown(play(FALSE, ok))
                    /\ UNCHANGED bw
    /\ UNCHANGED <<m_clients, m_client_mutex, sinkTargets, closeCount,
                   nextStream, usedSockets, ac, cb>>

\* case GST_MESSAGE_EOS
BusWatchEOS == StopAndClear("EOS")

\* case GST_MESSAGE_ERROR (log, dot dump, then as for EOS)
BusWatchError == StopAndClear("ERROR")

\* case GST_MESSAGE_INFO, GST_MESSAGE_WARNING: log only.
BusWatchInfoWarning ==
    \E type \in {"INFO", "WARNING"} :
      /\ Dispatch(Msg(type, ""))
      /\ bus' = Tail(bus)
      /\ UNCHANGED <<m_clients, m_client_mutex, sinkTargets, pipelineState,
                     closeCount, nextStream, usedSockets, mainPc, ac, cb, bw, hist>>

\* case GST_MESSAGE_REQUEST_STATE: gst_element_set_state(m_pipeline, requested),
\* result ignored.
BusWatchRequestState ==
    \E s \in RequestStates, ok \in BOOLEAN :
      /\ Dispatch(Msg("REQUEST_STATE", s))
      /\ bus' = Tail(bus)
      /\ pipelineState' = gst_element_set_state(s, ok)
      /\ hist' = [hist EXCEPT !.setStateThreads = @ \cup {"main"}]
      /\ UNCHANGED <<m_clients, m_client_mutex, sinkTargets, closeCount,
                     nextStream, usedSockets, mainPc, ac, cb, bw>>

\* case GST_MESSAGE_STATE_CHANGED (log, dot dump), GST_MESSAGE_LATENCY
\* (recalculate latency): no effect on the state modelled here.
BusWatchOther ==
    \E type \in {"STATE_CHANGED", "LATENCY"} :
      /\ Dispatch(Msg(type, ""))
      /\ bus' = Tail(bus)
      /\ UNCHANGED <<m_clients, m_client_mutex, sinkTargets, pipelineState,
                     closeCount, nextStream, usedSockets, mainPc, ac, cb, bw, hist>>

\* "clear": the sink drops one more of its sockets and emits
\* "client-socket-removed" for it in the main thread.
ClearNext ==
    /\ mainPc = "bw_clear"
    /\ cb["main"].pc = "none"
    /\ \E s \in sinkTargets :
         /\ sinkTargets' = sinkTargets \ {s}
         /\ cb' = [cb EXCEPT !["main"] = [NoCb EXCEPT !.pc = "lock", !.sock = s]]
    /\ UNCHANGED <<m_clients, m_client_mutex, bus, pipelineState, closeCount,
                   nextStream, usedSockets, mainPc, ac, bw, hist>>

\* The steps of on_client_socket_removed run by "clear" in the main thread.
ClearRemoved ==
    /\ mainPc = "bw_clear"
    /\ \/ RemovedLock("main")
       \/ RemovedFind("main")
       \/ RemovedClose("main")
       \/ RemovedErase("main")
       \/ RemovedCheck("main")

\* "clear" found no socket left in the sink: bus_watch returns.
ClearDone ==
    /\ mainPc = "bw_clear"
    /\ cb["main"].pc = "none"
    /\ sinkTargets = {}
    /\ mainPc' = "idle"
    /\ hist' = [hist EXCEPT !.fatalHandled = @ + 1]
    /\ UNCHANGED <<m_clients, m_client_mutex, sinkTargets, bus, pipelineState,
                   closeCount, nextStream, usedSockets, ac, cb, bw>>

(* ---- environment ---- *)

\* An element of the pipeline posts a message on the bus.
EnvPost(msg) ==
    /\ Running
    /\ hist.envPosted < MaxEnvMsgs
    /\ bus' = Append(bus, msg)
    /\ hist' = [hist EXCEPT !.envPosted = @ + 1]
    /\ UNCHANGED <<m_clients, m_client_mutex, sinkTargets, pipelineState,
                   closeCount, nextStream, usedSockets, mainPc, ac, cb, bw>>

\* SIGINT/SIGTERM: exit_sighandler quits the main loop, g_main_loop_run
\* returns and the pipeline's destructor sets the state to NULL.
ExitSignal ==
    /\ mainPc = "idle"
    /\ mainPc' = "quit"
    /\ pipelineState' = "NULL"
    /\ UNCHANGED <<m_clients, m_client_mutex, sinkTargets, bus, closeCount,
                   nextStream, usedSockets, ac, cb, bw, hist>>

(* ---- specifications ---- *)

\* The steps of the main thread other than taking up a new request.
MainStep ==
    \/ AddClientLock \/ AddClientInsert \/ AddClientSinkAdd \/ AddClientPlay
    \/ BusWatchElement \/ BusWatchEOS \/ BusWatchError \/ BusWatchInfoWarning
    \/ BusWatchRequestState \/ BusWatchOther
    \/ ClearNext \/ ClearRemoved \/ ClearDone

\* The sockets no request has brought yet; which of them the next request
\* brings makes no difference, so it brings the lowest.
FreshSockets ==
    {s \in Sockets \ usedSockets : \A r \in Sockets \ usedSockets : s <= r}

\* The program as it runs: every request brings a socket and a stream of
\* its own, and the sink reports only sockets it held.
Next ==
    \/ \E s \in FreshSockets : AddClientCall(nextStream, s)
    \/ MainStep
    \/ \E s \in Sockets : SinkRemoveClient(s)
    \/ StreamingRemoved
    \/ \E msg \in EnvMsgs : EnvPost(msg)
    \/ ExitSignal

Spec == Init /\ [][Next]_vars

\* The main loop keeps dispatching and the streaming thread keeps running.
FairSpec == Spec /\ WF_vars(MainStep) /\ WF_vars(StreamingRemoved)

\* The two entry points called with arguments of the caller's choice:
\* add_client with any socket, on_client_socket_removed with any socket;
\* the main loop handles the element messages they post.
NextAny ==
    \/ \E s \in Sockets : AddClientCall(nextStream, s)
    \/ AddClientLock \/ AddClientInsert \/ AddClientSinkAdd \/ AddClientPlay
    \/ BusWatchElement
    \/ \E s \in Sockets : SinkRemoveClient(s)
    \/ \E s \in Sockets : SpuriousRemoved(s)
    \/ StreamingRemoved

SpecAny == Init /\ [][NextAny]_vars

(* ---- main: startup ---- *)

MinArgc == 5
MaxArgc == 6
MaxPortLen == 2

\* argc as gst_init leaves it, and the characters argv[1] is made of.
ArgcValues == 1..MaxArgc
PortChars == {"8", "x", "-"}
PortArgs == UNION {[1..n -> PortChars] : n \in 0..MaxPortLen}

\* The value of the leading run of digits of str, after acc.
RECURSIVE LeadingDigits(_, _)
LeadingDigits(str, acc) ==
    IF str = <<>> \/ Head(str) # "8" THEN acc
    ELSE LeadingDigits(Tail(str), 10 * acc + 8)

\* std::stoi: an optional sign, then digits; it throws if no digit follows,
\* and ignores whatever comes after the digits.
stoi(str) ==
    LET neg == str # <<>> /\ Head(str) = "-"
        body == IF neg THEN Tail(str) ELSE str
    IN  [ok |-> body # <<>> /\ Head(body) = "8",
         value |-> IF neg THEN 0 - LeadingDigits(body, 0) ELSE LeadingDigits(body, 0)]

\* What can make the constructor of http_stream_pipeline throw.
ConstructFailures ==
    {"parse", "no_stream", "no_src_pad", "no_multisocketsink", "ready_failed"}

StartupPcs == {"main_args", "main_create", "main_port", "main_construct", "main_listen"}
Returned == {"returned_m1", "returned_0"}

\* The main loop has been entered (and possibly left again).
Started == mainPc \notin StartupPcs \cup Returned

\* The exit status main returns at the position pc.
ExitStatus(pc) == IF pc = "returned_m1" THEN 0 - 1 ELSE 0

\* The process before main has run: no pipeline yet.
InitMain ==
    /\ m_clients = [s \in Sockets |-> NoStream]
    /\ m_client_mutex = "free"
    /\ sinkTargets = {}
    /\ bus = <<>>
    /\ pipelineState = "NULL"
    /\ closeCount = [st \in Streams |-> 0]
    /\ nextStream = 1
    /\ usedSockets = {}
    /\ mainPc = "main_args"
    /\ ac = NoAc
    /\ cb = [t \in Threads |-> NoCb]
    /\ bw = NoBw
    /\ hist = [playTrue |-> 0, playFalse |-> 0, stopPosted |-> 0, stopHandled |-> 0,
               envPosted |-> 0, spurious |-> 0, ignored |-> 0, fatalHandled |-> 0,
               firstRegs |-> 0, dupRegs |-> 0, setStateThreads |-> {}]

\* if (argc < 5) { usage; return -1; }
MainArgs(argc) ==
    /\ mainPc = "main_args"
    /\ mainPc' = IF argc < MinArgc THEN "returned_m1" ELSE "main_create"
    /\ UNCHANGED <<m_clients, m_client_mutex, sinkTargets, bus, pipelineState,
                   closeCount, nextStream, usedSockets, ac, cb, bw, hist>>

\* soup_server_new and g_main_loop_new: return -1 if either gives nullptr.
MainCreate(soup_ok, mainloop_ok) ==
    /\ mainPc = "main_create"
    /\ mainPc' = IF soup_ok /\ mainloop_ok THEN "main_port" ELSE "returned_m1"
    /\ UNCHANGED <<m_clients, m_client_mutex, sinkTargets, bus, pipelineState,
                   closeCount, nextStream, usedSockets, ac, cb, bw, hist>>

\* port = std::stoi(argv[1]); an exception: "Invalid port number", return -1.
MainPort(port_arg) ==
    /\ mainPc = "main_port"
    /\ mainPc' = IF stoi(port_arg).ok THEN "main_construct" ELSE "returned_m1"
    /\ UNCHANGED <<m_clients, m_client_mutex, sinkTargets, bus, pipelineState,
                   closeCount, nextStream, usedSockets, ac, cb, bw, hist>>

\* http_stream_pipeline pipeline(argv[2], &argv[3]) inside main's try
\* block: the constructor either leaves the pipeline in READY or throws
\* std::runtime_error, which main's catch block prints before main goes on
\* to "Quitting" and return 0.
MainConstruct(outcome) ==
    /\ mainPc = "main_construct"
    /\ IF outcome \in ConstructFailures
       THEN /\ mainPc' = "returned_0"
            /\ UNCHANGED pipelineState
       ELSE /\ mainPc' = "main_listen"
            /\ pipelineState' = "READY"
    /\ UNCHANGED <<m_clients, m_client_mutex, sinkTargets, bus, closeCount,
                   nextStream, usedSockets, ac, cb, bw, hist>>

\* soup_server_listen_all: on failure return -1 (the pipeline's destructor
\* sets the state to NULL); on success g_main_loop_run is entered.
MainListen(listen_ok) ==
    /\ mainPc = "main_listen"
    /\ IF listen_ok
       THEN /\ mainPc' = "idle"
            /\ UNCHANGED pipelineState
       ELSE /\ mainPc' = "returned_m1"
            /\ pipelineState' = "NULL"
    /\ UNCHANGED <<m_clients, m_client_mutex, sinkTargets, bus, closeCount,
                   nextStream, usedSockets, ac, cb, bw, hist>>

\* The process from the start of main: startup, then the program as it
\* runs once the main loop has been entered.
NextMain ==
    \/ \E argc \in ArgcValues : MainArgs(argc)
    \/ \E soup_ok \in BOOLEAN, mainloop_ok \in BOOLEAN : MainCreate(soup_ok, mainloop_ok)
    \/ \E port_arg \in PortArgs : MainPort(port_arg)
    \/ \E outcome \in ConstructFailures \cup {"ok"} : MainConstruct(outcome)
    \/ \E listen_ok \in BOOLEAN : MainListen(listen_ok)
    \/ \E s \in FreshSockets : AddClientCall(nextStream, s)
    \/ MainStep
    \/ \E s \in Sockets : SinkRemoveClient(s)
    \/ StreamingRemoved
    \/ \E msg \in EnvMsgs : Started /\ EnvPost(msg)
    \/ ExitSignal

SpecMain == InitMain /\ [][NextMain]_vars

(* ---- properties ---- *)

StopPending == \E i \in 1..Len(bus) : bus[i] = StopPipelineMsg

\* No add_client or on_client_socket_removed call is in progress, the main
\* loop is idle and no stop request waits on the bus.
Settled ==
    /\ mainPc = "idle"
    /\ \A t \in Threads : cb[t].pc = "none"
    /\ ~StopPending

\* Only registrations, removals and StopPipeline handling have happened.
OnlyClientTraffic == hist.envPosted = 0

\* C1: once settled after any interleaving of add_client, removals in the
\* streaming thread and StopPipeline handling, the pipeline is PLAYING if
\* m_clients is non-empty and READY if it is empty.
C1_PlayStateCorrespondence ==
    (Running /\ Settled /\ OnlyClientTraffic) =>
        IF Size(m_clients) > 0 THEN pipelineState = "PLAYING"
                               ELSE pipelineState = "READY"

\* The socket whose entry the streaming thread's callback has yet to erase.
StreamingPending ==
    IF cb["streaming"].pc \in {"lock", "find", "close", "erase"}
    THEN {cb["streaming"].sock} ELSE {}

\* bus_watch returns from its EOS or ERROR case.
FatalHandlingEnds == mainPc = "bw_clear" /\ mainPc' = "idle"

InsertedNotChecked == mainPc \in {"ac_sink_add", "ac_play"}

\* C3: play(true) is invoked exactly once for each registration that takes
\* the registry from 0 to 1 clients and by no other registration.
C3_PlayTrueOnlyOnFirstClient ==
    hist.playTrue =
        hist.firstRegs - (IF InsertedNotChecked /\ ac.wasFirst THEN 1 ELSE 0)

\* Three registrations were made, two of them 0 -> 1 transitions.
C3_Witness ==
    /\ nextStream = 4
    /\ mainPc = "idle"
    /\ hist.firstRegs = 2
    /\ hist.playTrue = 2
    /\ Size(m_clients) = 2

\* Thread t's on_client_socket_removed call returns after erasing an entry.
UnregistrationEnds(t) == cb[t].pc = "check" /\ cb'[t].pc = "none"

\* An unregistration posts exactly one StopPipeline message if it took the
\* registry from 1 to 0 clients and none otherwise, it makes no play call,
\* and nothing else posts a stop request.
StopPostedOnlyByLast ==
    [][/\ \A t \in Threads :
            UnregistrationEnds(t) =>
              /\ hist'.stopPosted = hist.stopPosted + (IF cb[t].wasLast THEN 1 ELSE 0)
              /\ bus' = (IF cb[t].wasLast THEN Append(bus, StopPipelineMsg) ELSE bus)
              /\ hist'.playTrue = hist.playTrue
              /\ hist'.playFalse = hist.playFalse
              /\ pipelineState' = pipelineState
       /\ hist'.stopPosted # hist.stopPosted =>
            \E t \in Threads : UnregistrationEnds(t)]_vars

InCriticalSection ==
    {t \in Threads : cb[t].pc \in {"find", "close", "erase", "check"}}
    \cup (IF mainPc \in {"ac_insert", "ac_sink_add", "ac_play"} THEN {"main"} ELSE {})

\* C5: a thread is inside a critical section on m_clients only while it
\* holds the mutex (so never two at once), and the size check of a call
\* sees 'first' exactly when its own insertion took the size from 0 to 1,
\* and 'last' exactly when its own erasure took it from 1 to 0.
C5_RegistryLinearizable ==
    /\ \A t \in InCriticalSection : m_client_mutex = t
    /\ mainPc = "ac_play" => ((Size(m_clients) = 1) <=> ac.wasFirst)
    /\ \A t \in Threads :
         cb[t].pc = "check" => ((Size(m_clients) = 0) <=> cb[t].wasLast)

\* The streaming thread is about to see 'last' while an add_client call
\* waits for the mutex.
C5_Witness ==
    /\ cb["streaming"].pc = "check"
    /\ cb["streaming"].wasLast
    /\ mainPc = "ac_lock"

\* C6: every state-transition call (play, the forwarded state request) is
\* made by the main thread, and no step of the streaming thread changes
\* the pipeline state.
C6_StateSetOnlyInMainThread ==
    /\ [](hist.setStateThreads \subseteq {"main"})
    /\ [][pipelineState' # pipelineState => cb'["streaming"] = cb["streaming"]]_vars

\* The streaming thread removed the last client and the stop request it
\* posted was executed by the main thread.
C6_Witness ==
    /\ OnlyClientTraffic
    /\ hist.stopPosted >= 1
    /\ hist.stopHandled >= 1
    /\ hist.setStateThreads = {"main"}
    /\ pipelineState = "READY"

\* C7: no connection is closed more than once, and an entry whose
\* connection has been closed is in the registry only while the closing
\* thread holds the mutex and is about to erase it.
C7_CloseOnceAndAtomicWithErase ==
    /\ \A st \in Streams : closeCount[st] <= 1
    /\ \A s \in Keys(m_clients) :
         closeCount[m_clients[s]] >= 1 =>
           \E t \in Threads :
             /\ m_client_mutex = t
             /\ cb[t].pc = "erase"
             /\ cb[t].sock = s

\* A connection is closed and its entry not yet erased while an add_client
\* call waits for the mutex.
C7_Witness ==
    /\ cb["streaming"].pc = "erase"
    /\ closeCount[m_clients[cb["streaming"].sock]] = 1
    /\ mainPc = "ac_lock"

\* C8 as stated: in every reachable state a key is in m_clients if and
\* only if the sink holds that socket.
C8_RegistryMatchesSink == Keys(m_clients) = sinkTargets

\* The sockets the sink has dropped whose entries are not yet erased.
PendingRemoval ==
    {cb[t].sock : t \in {u \in Threads : cb[u].pc \in {"lock", "find", "close", "erase"}}}

\* C8 amended: the keys of m_clients are the sockets the sink holds, plus
\* those it has dropped whose removal callback has not erased the entry
\* yet, plus the one add_client has inserted and not yet added to the
\* sink; so the two agree whenever no add_client and no removal is in
\* progress.
C8_RegistryMatchesSinkWhenQuiet ==
    /\ Keys(m_clients) =
         sinkTargets \cup PendingRemoval
         \cup (IF mainPc = "ac_sink_add" THEN {ac.sock} ELSE {})
    /\ sinkTargets \cap PendingRemoval = {}

\* Nothing in progress, one client removed, two registered and in the sink.
C8_Witness ==
    /\ Settled
    /\ closeCount[1] = 1
    /\ Size(m_clients) = 2
    /\ Keys(m_clients) = sinkTargets

\* C9: add_client with a socket that is already a key of m_clients is a
\* no-op: the entry keeps its connection, the size is unchanged, and no
\* play call is made.
C9_DuplicateRegistrationIsNoOp ==
    /\ [][(mainPc = "ac_insert" /\ m_clients[ac.sock] # NoStream) =>
            m_clients' = m_clients]_vars
    /\ [][(mainPc = "ac_play" /\ ac.old # NoStream) =>
            (hist'.playTrue = hist.playTrue /\ pipelineState' = pipelineState)]_vars

\* C10: on_client_socket_removed for a socket that is not a key of
\* m_clients returns without closing a connection, erasing an entry or
\* posting a stop request.
C10_UnknownSocketIgnored ==
    [][\A t \in Threads :
         (cb[t].pc = "find" /\ m_clients[cb[t].sock] = NoStream /\ cb'[t] # cb[t]) =>
           /\ cb'[t].pc = "none"
           /\ m_client_mutex' = "free"
           /\ closeCount' = closeCount
           /\ m_clients' = m_clients
           /\ bus' = bus
           /\ hist'.stopPosted = hist.stopPosted
           /\ pipelineState' = pipelineState]_vars

\* A removal for an unknown socket was ignored while the registry was
\* empty: nothing closed, nothing posted.
C10_Witness ==
    /\ hist.ignored >= 1
    /\ \A t \in Threads : cb[t].pc = "none"
    /\ Size(m_clients) = 0
    /\ \A st \in Streams : closeCount[st] = 0
    /\ hist.stopPosted = 0
    /\ bus = <<>>

\* A step in which play is called.
PlayCallMade ==
    hist'.playTrue + hist'.playFalse > hist.playTrue + hist.playFalse

\* C11: a play call, whether the pipeline accepts or rejects the
\* transition, never ends the main loop and never takes the pipeline out
\* of the states play moves between: after a rejected transition the
\* process runs on with the pipeline in its prior state.
C11_PlayFailureNonFatal ==
    [][PlayCallMade =>
         /\ Running'
         /\ pipelineState' \in {pipelineState, "PLAYING", "READY"}]_vars

\* A step of main's startup that ends the process.
StartupFails == mainPc \in StartupPcs /\ mainPc' \in Returned

\* C12: every startup failure (too few arguments, invalid port, listener
\* failure, failure to construct the pipeline) ends the process with a
\* non-zero exit status; status 0 is not returned from startup.
C12_StartupFailureExitsNonZero ==
    [][StartupFails => ExitStatus(mainPc') # 0]_vars

\* Thread t takes a step of its on_client_socket_removed call.
RemovalStep(t) == cb[t].pc # "none" /\ cb'[t] # cb[t]

\* C14: the removal of one client (the sink dropping its socket, then the
\* callback) erases only that client's entry and closes only that client's
\* connection: every other entry, every other connection, the sink's other
\* sockets and the pipeline state are left as they were, and a stop request
\* is posted only if the removed client was the last one.
C14_RemovalTouchesOneClient ==
    [][/\ \A t \in Threads :
            RemovalStep(t) =>
              /\ \A s \in Sockets \ {cb[t].sock} : m_clients'[s] = m_clients[s]
              /\ \A st \in Streams \ {m_clients[cb[t].sock]} :
                   closeCount'[st] = closeCount[st]
              /\ sinkTargets' = sinkTargets
              /\ pipelineState' = pipelineState
              /\ bus' # bus => Size(m_clients') = 0
       /\ (cb["streaming"].pc = "none" /\ cb'["streaming"].pc # "none") =>
            /\ sinkTargets' = sinkTargets \ {cb'["streaming"].sock}
            /\ m_clients' = m_clients
            /\ closeCount' = closeCount
            /\ pipelineState' = pipelineState
            /\ bus' = bus]_vars

\* One of three clients was removed by the streaming thread; the other two
\* are still registered, in the sink and open, and the pipeline plays on.
C14_Witness ==
    /\ OnlyClientTraffic
    /\ Settled
    /\ nextStream = 4
    /\ Size(m_clients) = 2
    /\ Keys(m_clients) = sinkTargets
    /\ \A st \in Registered(m_clients) : closeCount[st] = 0
    /\ \E st \in Streams : closeCount[st] = 1
    /\ hist.stopPosted = 0
    /\ pipelineState = "PLAYING"

\* The process was terminated where it stood by an exception that could
\* not be unwound to main's catch block.
Terminated == mainPc = "quit" /\ ~Joining

\* The sink has dropped socket s and its removal callback has been raised
\* in the streaming thread.
Evicted(s) == cb["streaming"].pc = "lock" /\ cb["streaming"].sock = s

\* The entry of socket s is gone and the callback for it has returned.
Gone(s) == m_clients[s] = NoStream /\ cb["streaming"].sock # s

\* Whenever an entry leaves the registry, its connection has been closed
\* exactly once.
ErasedMeansClosed ==
    [][\A s \in Sockets :
         (m_clients[s] # NoStream /\ m_clients'[s] = NoStream) =>
           closeCount'[m_clients[s]] = 1]_vars

\* C15 as stated: every client the sink evicts eventually has its
\* connection closed and its registry entry removed.
C15_EvictedClientRemoved ==
    /\ ErasedMeansClosed
    /\ \A s \in Sockets : Evicted(s) ~> Gone(s)

\* The part of C15 that holds: every client the sink evicts eventually has
\* its connection closed and its registry entry removed, or the process has
\* been terminated by then.
C15_EvictedClientRemovedUnlessTerminated ==
    /\ ErasedMeansClosed
    /\ \A s \in Sockets : Evicted(s) ~> (Gone(s) \/ Terminated)

\* Thread t closes a connection in this step (g_io_stream_close).
ClosesStream(t) == cb[t].pc = "close" /\ cb'[t].pc = "erase"

\* C16: no context holds the registry guard while it closes a connection
\* or makes a play call.
C16_GuardNotHeldAcrossBlockingCalls ==
    [][/\ \A t \in Threads : ClosesStream(t) => m_client_mutex # t
       /\ (PlayCallMade /\ mainPc \in {"ac_play", "idle"}) => m_client_mutex # "main"
      ]_vars

\* bus_watch is entered for a message of the given type in this step.
Handles(type) ==
    /\ mainPc = "idle"
    /\ bus # <<>>
    /\ Head(bus).type = type
    /\ bus' = Tail(bus)

\* C17: an EOS or ERROR message makes bus_watch call play(false) and go on
\* to clear the sink; the sink is cleared only after that call; an INFO or
\* WARNING message causes neither a play call nor a clear.
C17_StopThenClearOnFatalEvent ==
    [][/\ \A type \in {"EOS", "ERROR"} :
            Handles(type) => /\ hist'.playFalse = hist.playFalse + 1
                             /\ mainPc' = "bw_clear"
       /\ (mainPc # "bw_clear" /\ mainPc' = "bw_clear") =>
            /\ hist'.playFalse = hist.playFalse + 1
            /\ sinkTargets' = sinkTargets
       /\ \A type \in {"INFO", "WARNING"} :
            Handles(type) => /\ ~PlayCallMade
                             /\ mainPc' = "idle"
                             /\ sinkTargets' = sinkTargets
      ]_vars

\* Thread t is at a std::lock_guard constructor, waiting for the mutex.
Waiting(t) ==
    \/ cb[t].pc = "lock"
    \/ t = "main" /\ mainPc = "ac_lock"

\* Thread t is between a std::lock_guard constructor and the end of its
\* scope.
InsideGuardScope(t) ==
    \/ cb[t].pc \in {"find", "close", "erase", "check"}
    \/ t = "main" /\ mainPc \in {"ac_insert", "ac_sink_add", "ac_play"}

\* The mutex is held only by a thread inside a lock_guard's scope: every
\* way out of add_client and on_client_socket_removed has released it.
GuardReleasedOnExit ==
    \A t \in Threads : m_client_mutex = t => InsideGuardScope(t)

\* No thread waits for the mutex while holding it itself.
NoSelfAcquire == \A t \in Threads : ~(Waiting(t) /\ m_client_mutex = t)

\* C18 as stated: the guard is released on every way out, no thread
\* acquires it while holding it, and every waiting thread eventually
\* obtains it.
C18_GuardReleasedNoDeadlock ==
    /\ [](GuardReleasedOnExit /\ NoSelfAcquire)
    /\ \A t \in Threads : Waiting(t) ~> (m_client_mutex = t)

\* The part of C18 that holds: as above, with every waiting thread
\* eventually obtaining the guard or the process having been terminated.
C18_GuardReleasedNoDeadlockUnlessTerminated ==
    /\ [](GuardReleasedOnExit /\ NoSelfAcquire)
    /\ \A t \in Threads : Waiting(t) ~> (m_client_mutex = t \/ Terminated)

\* C19: whenever the mutex is free, no entry of m_clients maps to a closed
\* connection; and a connection is closed only by the thread that holds
\* the mutex.
C19_RegisteredConnectionsOpen ==
    /\ m_client_mutex = "free" =>
         \A s \in Keys(m_clients) : closeCount[m_clients[s]] = 0
    /\ \A t \in Threads : cb[t].pc = "erase" => m_client_mutex = t

\* The mutex is free after one client was closed and erased while another
\* is still registered.
C19_Witness ==
    /\ m_client_mutex = "free"
    /\ \A t \in Threads : cb[t].pc = "none"
    /\ m_clients[1] = 1
    /\ m_clients[2] = NoStream
    /\ closeCount[1] = 0
    /\ closeCount[2] = 1

\* C20: a removal callback for a socket that add_client handed to the sink
\* finds the socket's entry: when it holds the mutex and is about to look
\* the socket up, the entry is there, and the "not in list" branch has never
\* been taken.
C20_RemovalFindsEntry ==
    /\ \A t \in Threads :
         cb[t].pc = "find" => m_clients[cb[t].sock] # NoStream
    /\ \A s \in sinkTargets : m_clients[s] # NoStream
    /\ hist.ignored = 0

\* The sink dropped the first socket after the pipeline was started for it,
\* and the callback has taken the mutex and found the entry.
C20_Witness ==
    /\ cb["streaming"].pc = "close"
    /\ cb["streaming"].sock = 1
    /\ m_clients[1] = 1
    /\ usedSockets = {1}
    /\ hist.playTrue = 1
    /\ pipelineState = "PLAYING"

====
